---- MODULE Spec2Model ----
(***************************************************************************)
(* InMemoryVectorStore (src/src/05-vector-stores.ts): add, search and      *)
(* cluster over the private array `vectors`, with the embedding service    *)
(* as an external collaborator that answers with any vector or fails.      *)
(* SimpleRAG (same file), ConversationManager (src/unnamed/part_004),      *)
(* MCPProgressTracker (src/unnamed/part_002) and PromptChain               *)
(* (src/src/06-advanced-ai-concepts.ts) follow, each with its own          *)
(* specification over its own fields; SpecConcurrent and SpecSummary have  *)
(* callers that do not await one call before they make the next.           *)
(*                                                                         *)
(* Numbers.  Stored coordinates are small integers.  A JavaScript number   *)
(* that the code can produce from them is either NaN or a rational, so     *)
(*   - a numeric array is [num, den, nan]: coordinate j is NaN when        *)
(*     j \in nan and num[j] / den otherwise;                               *)
(*   - a similarity is [nan, s, n, d]: NaN, or the number with sign s and  *)
(*     square n / d (n and d coprime).                                     *)
(* Arithmetic is exact: the rounding of Math.sqrt and of the division is   *)
(* not modelled.                                                           *)
(***************************************************************************)
EXTENDS Integers, Sequences, FiniteSets, TLC

VARIABLES
    vectors,    \* InMemoryVectorStore.vectors: the stored records, in push order
    pc,         \* where the caller's current call stands
    args,       \* the arguments of the current call, and the locals it holds across an await
    outcome,    \* what the current call returned or threw
    earlier,    \* the caller's record of an earlier moment: the cluster call it made
                \* before, or the object as the current call found it
    documents,  \* SimpleRAG.documents
    embeddings, \* SimpleRAG.embeddings
    requests,   \* the requests sent to Ollama with their replies: those of the current
                \* call, or of every call when calls overlap
    messages,   \* ConversationManager.messages
    tasks,      \* MCPProgressTracker.tasks
    steps,      \* PromptChain.steps
    pending     \* the calls that are suspended at an await while other calls run

vars == <<vectors, pc, args, outcome, earlier, documents, embeddings, requests, messages, tasks,
          steps, pending>>

\* What the methods of InMemoryVectorStore neither read nor write.
outsideStore == <<earlier, documents, embeddings, messages, tasks, steps, pending>>
\* What the methods of SimpleRAG neither read nor write.
outsideRAG == <<vectors, messages, tasks, steps, pending>>
\* What the methods of ConversationManager neither read nor write.
outsideConversation == <<vectors, documents, embeddings, requests, tasks, steps, pending>>
\* The same without `pending`, for calls that overlap.
outsideSummary == <<vectors, documents, embeddings, requests, tasks, steps>>
\* What the methods of MCPProgressTracker neither read nor write.
outsideTracker == <<vectors, earlier, documents, embeddings, requests, messages, steps, pending>>
\* What the methods of PromptChain neither read nor write.
outsideChain == <<vectors, earlier, documents, embeddings, messages, tasks, pending>>

(***************************************************************************)
(* Bounds of the exploration.                                              *)
(***************************************************************************)
MaxStore == 3          \* add is not called on a store of this size
MaxClusters == 3       \* numClusters ranges over -1 .. MaxClusters
MaxRanked == 4         \* the size of the stores SpecRanked searches
MaxSeeded == 2         \* the size of the stores SpecSeeded clusters
MaxRefined == 3        \* the size of the stores SpecRounds clusters
MaxCalled == 2         \* SpecCalls starts a call on a store of fewer records
MaxHistory == 5        \* messages of a conversation in SpecSummary
MaxExchanges == 2      \* exchanges of the conversations SpecSummary starts from
MaxKeep == 2           \* the largest keepLast
MaxDocuments == 2      \* addDocument is not called on a SimpleRAG of this size
MaxMessages == 3       \* no message is added to a conversation of this size
MaxCount == 2          \* trimToLastExchanges is called with -1 .. MaxCount
MaxPrompts == 201      \* longRunningOllamaTask gets at most this many prompts
MaxSteps == 3          \* addStep is not called on a chain of this many steps

Ids == {"a"}
\* What the embedding service may answer: two lengths, a zero vector,
\* opposite vectors and orthogonal ones.
Embeddings == {<<1>>, <<0, 0>>, <<1, 0>>, <<0, 1>>, <<-1, 0>>}
TopKs == -1 .. (MaxStore + 1)
\* A text add embeds and a query search embeds.
Texts == {"JavaScript is a versatile programming language"}
Queries == {"programming languages for web development"}
NumClusters == -1 .. MaxClusters

(***************************************************************************)
(* Numbers                                                                 *)
(***************************************************************************)
RECURSIVE GCD(_, _)
GCD(a, b) == IF b = 0 THEN a ELSE GCD(b, a % b)

Sign(x) == IF x < 0 THEN -1 ELSE IF x = 0 THEN 0 ELSE 1
Min(a, b) == IF a < b THEN a ELSE b
Max(a, b) == IF a > b THEN a ELSE b

\* The element of a one-element set: Only({body : x \in {e}}) is body with x standing
\* for e, and e computed once.
Only(S) == CHOOSE r \in S : TRUE

RECURSIVE SumSeq(_)
SumSeq(s) == IF s = <<>> THEN 0 ELSE Head(s) + SumSeq(Tail(s))

NaN == [nan |-> TRUE, s |-> 0, n |-> 0, d |-> 1]
MinusOne == [nan |-> FALSE, s |-> -1, n |-> 1, d |-> 1]

\* The number of sign sg whose square is p / q (q > 0).
Num(sg, p, q) ==
    IF p = 0 THEN [nan |-> FALSE, s |-> 0, n |-> 0, d |-> 1]
    ELSE LET g == GCD(p, q) IN [nan |-> FALSE, s |-> sg, n |-> p \div g, d |-> q \div g]

\* x > y of JavaScript: false as soon as one side is NaN.
Greater(x, y) == ~x.nan /\ ~y.nan /\ x.s * x.n * y.d > y.s * y.n * x.d
\* x >= y of JavaScript.
GreaterEq(x, y) == ~x.nan /\ ~y.nan /\ x.s * x.n * y.d >= y.s * y.n * x.d

\* A stored vector as a numeric array.
Arr(v) == [num |-> v, den |-> 1, nan |-> {}]

(***************************************************************************)
(* cosineSimilarity(a, b), lines 38-43.  The dot product runs over the     *)
(* indices of a and reads b[i]: past the end of b that is undefined, and   *)
(* the sum is NaN.  Each magnitude runs over its own array.  The common    *)
(* denominators cancel in dot / (|a| * |b|).  A zero magnitude makes the   *)
(* quotient 0 / 0, which is NaN: nothing is thrown.                        *)
(***************************************************************************)
dotProduct(a, b) == SumSeq([i \in 1 .. Len(a.num) |-> a.num[i] * b.num[i]])
SquaredMagnitude(a) == SumSeq([i \in 1 .. Len(a.num) |-> a.num[i] * a.num[i]])

cosineSimilarity(a, b) ==
    IF \/ \E i \in 1 .. Len(a.num) : i > Len(b.num) \/ i \in a.nan \/ i \in b.nan
       \/ a.nan # {}
       \/ b.nan # {}
    THEN NaN
    ELSE LET dot == dotProduct(a, b)
             sq == SquaredMagnitude(a) * SquaredMagnitude(b)
         IN IF sq = 0 THEN NaN ELSE Num(Sign(dot), dot * dot, sq)

(***************************************************************************)
(* similarities.sort((a, b) => b.similarity - a.similarity), line 35.      *)
(* A comparator result of NaN counts as 0.  Array.prototype.sort is stable *)
(* when the comparator is consistent; when it is not (a NaN next to two    *)
(* different numbers) ECMAScript leaves the order to the implementation,   *)
(* and any permutation is a possible result.                               *)
(***************************************************************************)
\* The comparator says a goes before b: b.similarity - a.similarity < 0.
Before(a, b) == Greater(a.similarity, b.similarity)

ConsistentComparator(items) ==
    \/ \A i \in DOMAIN items : ~items[i].similarity.nan
    \/ \A i, j \in DOMAIN items :
          (~items[i].similarity.nan /\ ~items[j].similarity.nan)
              => items[i].similarity = items[j].similarity

\* The sorted s with x put in: before the elements x goes before, after all others.
RECURSIVE InsertStable(_, _)
InsertStable(s, x) ==
    IF s = <<>> THEN <<x>>
    ELSE IF Before(x, s[Len(s)]) THEN Append(InsertStable(SubSeq(s, 1, Len(s) - 1), x), s[Len(s)])
    ELSE Append(s, x)

RECURSIVE StableSort(_)
StableSort(items) ==
    IF items = <<>> THEN <<>>
    ELSE InsertStable(StableSort(SubSeq(items, 1, Len(items) - 1)), items[Len(items)])

Reorderings(items) ==
    {[i \in DOMAIN items |-> items[p[i]]] :
        p \in {q \in [DOMAIN items -> DOMAIN items] : \A i, j \in DOMAIN items : q[i] = q[j] => i = j}}

Sort(items) ==
    IF ConsistentComparator(items) THEN {StableSort(items)} ELSE Reorderings(items)

\* Slice without its end: the whole array.
SliceUnbounded(s, end) == s

\* Array.prototype.slice(0, end): a negative end counts from the end of the array.
Slice(s, end) ==
    LET k == IF end < 0 THEN Max(Len(s) + end, 0) ELSE Min(end, Len(s))
    IN SubSeq(s, 1, k)

\* The mapped array of search, lines 30-33: every record with its similarity to the
\* query. A record is named by its position in `vectors`.
Similarities(vs, queryVector) ==
    [i \in DOMAIN vs |->
        [index |-> i, id |-> vs[i].id,
         similarity |-> cosineSimilarity(Arr(queryVector), Arr(vs[i].vector))]]

\* What search may return, lines 30-35.
SearchResults(vs, queryVector, topK) ==
    {Slice(sorted, topK) : sorted \in UNION {Sort(similarities) : similarities \in {Similarities(vs, queryVector)}}}

(***************************************************************************)
(* The calls.  The caller awaits each call before making the next one, as  *)
(* every caller in the repository does.  add and search suspend once, on   *)
(* the embedding request; cluster never suspends.                          *)
(***************************************************************************)
NoArgs == [op |-> "none"]
NoOutcome == [kind |-> "none"]
Threw(e) == [kind |-> "error", error |-> e]

NoEarlier == [kind |-> "none"]

TaskIds == {"learning-concepts"}
\* new Map(), line 58 of src/unnamed/part_002: no task under any id.
NoTasks == [taskId \in TaskIds |-> [status |-> "none"]]

Init ==
    /\ vectors = <<>>
    /\ pc = "idle"
    /\ args = NoArgs
    /\ outcome = NoOutcome
    /\ earlier = NoEarlier
    /\ documents = <<>>
    /\ embeddings = <<>>
    /\ requests = <<>>
    /\ messages = <<>>
    /\ tasks = NoTasks
    /\ steps = <<>>
    /\ pending = {}

\* A one-line string.
Text(t) == <<<<t>>>>

\* A request sent to Ollama and not answered yet; the reply it gets: "failed",
\* "answered" for an embedding, the text of the message for a chat.
Request(to, input) == [to |-> to, input |-> input, reply |-> "pending"]
Replied(rs, reply) == [rs EXCEPT ![Len(rs)].reply = reply]

\* add(id, text, metadata) up to its await, lines 9-13: the embedding of text is requested.
add_call(id) ==
    /\ pc = "idle"
    /\ Len(vectors) < MaxStore
    /\ pc' = "add"
    /\ args' = [op |-> "add", id |-> id]
    /\ \E text \in Texts : requests' = <<Request("embeddings", Text(text))>>
    /\ UNCHANGED <<vectors, outcome>>
    /\ UNCHANGED outsideStore

\* The record add pushes, lines 15-19.
Pushed(vs, id, embedding) == Append(vs, [id |-> id, vector |-> embedding])

\* The embedding arrives and add pushes the record, lines 15-19.
add_embedded(embedding) ==
    /\ pc = "add"
    /\ vectors' = Pushed(vectors, args.id, embedding)
    /\ outcome' = [kind |-> "added"]
    /\ requests' = Replied(requests, "answered")
    /\ pc' = "done"
    /\ UNCHANGED args
    /\ UNCHANGED outsideStore

\* The embedding request fails: the rejection leaves add at its await, line 10.
add_failed ==
    /\ pc = "add"
    /\ outcome' = Threw("ProviderError")
    /\ requests' = Replied(requests, "failed")
    /\ pc' = "done"
    /\ UNCHANGED <<vectors, args>>
    /\ UNCHANGED outsideStore

\* search(query, topK) up to its await, lines 22-26.
search_call(topK) ==
    /\ pc = "idle"
    /\ pc' = "search"
    /\ args' = [op |-> "search", topK |-> topK]
    /\ \E query \in Queries : requests' = <<Request("embeddings", Text(query))>>
    /\ UNCHANGED <<vectors, outcome>>
    /\ UNCHANGED outsideStore

\* The query's embedding arrives; search ranks the store, lines 28-35.
search_embedded(queryVector) ==
    /\ pc = "search"
    /\ \E results \in SearchResults(vectors, queryVector, args.topK) :
          outcome' = [kind |-> "results", queryVector |-> queryVector, results |-> results]
    /\ requests' = Replied(requests, "answered")
    /\ pc' = "done"
    /\ UNCHANGED <<vectors, args>>
    /\ UNCHANGED outsideStore

search_failed ==
    /\ pc = "search"
    /\ outcome' = Threw("ProviderError")
    /\ requests' = Replied(requests, "failed")
    /\ pc' = "done"
    /\ UNCHANGED <<vectors, args>>
    /\ UNCHANGED outsideStore

(***************************************************************************)
(* cluster(numClusters), lines 45-113.                                     *)
(***************************************************************************)
maxIterations == 100

\* The comparison `change < 0.99` of line 101, on squares: 0.99 * 0.99 = 9801 / 10000.
BelowThreshold(x) == ~x.nan /\ (x.s <= 0 \/ x.n * 10000 < 9801 * x.d)

\* The inner loop of lines 69-78 for one record: the first centroid whose similarity is
\* above every earlier one and above -1; centroid 1 when no similarity is above -1.
RECURSIVE BestFrom(_, _, _, _, _)
BestFrom(v, centroids, i, bestCluster, bestSimilarity) ==
    IF i > Len(centroids) THEN bestCluster
    ELSE LET similarity == cosineSimilarity(Arr(v), centroids[i])
         IN IF Greater(similarity, bestSimilarity)
            THEN BestFrom(v, centroids, i + 1, i, similarity)
            ELSE BestFrom(v, centroids, i + 1, bestCluster, bestSimilarity)

\* bestCluster starting at no cluster instead of the first one.
bestClusterUnset(v, centroids) == BestFrom(v, centroids, 1, 0, MinusOne)

bestCluster(v, centroids) == BestFrom(v, centroids, 1, 1, MinusOne)

\* Lines 64-81: numClusters empty clusters, then every record pushed, in store order,
\* onto the cluster of its best centroid. A cluster is the sequence of the positions
\* in `vectors` of the records it references.
Assign(vs, centroids, numClusters) ==
    Only({[c \in 1 .. numClusters |->
              SelectSeq([i \in 1 .. Len(vs) |-> i], LAMBDA i : best[i] = c)] :
          best \in {[i \in 1 .. Len(vs) |-> bestCluster(vs[i].vector, centroids)]}})

\* Lines 88-97: an array of the old centroid's length filled with 0, every member added
\* coordinate by coordinate (a coordinate past the array's end starts as undefined and
\* the sum is NaN), then every coordinate divided by the number of members.
newCentroid(vs, centroid, members) ==
    LET length == Max(Len(centroid.num),
                      Max(0, CHOOSE m \in {0} \cup {Len(vs[members[k]].vector) : k \in DOMAIN members} :
                                 \A k \in DOMAIN members : Len(vs[members[k]].vector) <= m))
        Coordinate(j) ==
            SumSeq([k \in DOMAIN members |->
                       IF j <= Len(vs[members[k]].vector) THEN vs[members[k]].vector[j] ELSE 0])
    IN [num |-> [j \in 1 .. length |-> IF j > Len(centroid.num) THEN 0 ELSE Coordinate(j)],
        den |-> Len(members),
        nan |-> {j \in 1 .. length : j > Len(centroid.num)}]

\* Lines 84-106: the centroids after the update (a centroid with no member is kept),
\* and whether one of the recomputed centroids moved.
updated(vs, centroids, clusters) ==
    [i \in DOMAIN centroids |->
        IF clusters[i] = <<>> THEN centroids[i] ELSE newCentroid(vs, centroids[i], clusters[i])]

changed(centroids, clusters, recomputed) ==
    \E i \in DOMAIN centroids :
        /\ clusters[i] # <<>>
        /\ BelowThreshold(cosineSimilarity(centroids[i], recomputed[i]))

\* An array without NaN whose magnitude is 0.
ZeroNorm(a) == a.nan = {} /\ SquaredMagnitude(a) = 0

\* One round calls cosineSimilarity on every record with every centroid (line 73) and on
\* every centroid that has members with its recomputed value (line 100).
MeetsZeroNorm(vs, centroids, clusters, recomputed) ==
    \/ \E i \in DOMAIN vs : ZeroNorm(Arr(vs[i].vector))
    \/ \E i \in DOMAIN centroids : ZeroNorm(centroids[i])
    \/ \E i \in DOMAIN centroids : clusters[i] # <<>> /\ ZeroNorm(recomputed[i])

\* The while loop of lines 62-110 from `iterations` on: the clusters of the last
\* assignment, the number of assignment rounds run, and whether a call of
\* cosineSimilarity met a zero-norm array.
RECURSIVE Refine(_, _, _, _, _, _)
Refine(vs, centroids, clusters, iterations, numClusters, zeroNorm) ==
    IF iterations >= maxIterations
    THEN [clusters |-> clusters, rounds |-> iterations, zeroNorm |-> zeroNorm]
    ELSE Only({Only({Only({
            IF changed(centroids, assigned, recomputed)
            THEN Refine(vs, recomputed, assigned, iterations + 1, numClusters, met)
            ELSE [clusters |-> assigned, rounds |-> iterations + 1, zeroNorm |-> met] :
         met \in {zeroNorm \/ MeetsZeroNorm(vs, centroids, assigned, recomputed)}}) :
         recomputed \in {updated(vs, centroids, assigned)}}) :
         assigned \in {Assign(vs, centroids, numClusters)}})

\* clusters.filter((cluster) => cluster.length > 0), line 112.
RECURSIVE NonEmpty(_)
NonEmpty(clusters) ==
    IF clusters = <<>> THEN <<>>
    ELSE IF Head(clusters) = <<>> THEN NonEmpty(Tail(clusters))
    ELSE <<Head(clusters)>> \o NonEmpty(Tail(clusters))

\* The test of line 47 off by one.
TooFewByTwo(vs, numClusters) == Len(vs) + 1 < numClusters

\* Line 47: the store is smaller than numClusters.
TooFew(vs, numClusters) == Len(vs) < numClusters

\* Line 48: one cluster, the array `vectors` itself.
AllInOne(vs) == <<[i \in 1 .. Len(vs) |-> i]>>

\* cluster(numClusters) with randomIndex[i] the index drawn for centroid i, lines 45-113:
\* the clusters returned, with the number of centroids initialised and of rounds run.
\* Array(numClusters) throws a RangeError for a negative length (line 64); with no
\* cluster at all, clusters[0] is undefined and the push of line 80 throws a TypeError.
Clustered(vs, numClusters, randomIndex) ==
    IF TooFew(vs, numClusters)
    THEN [kind |-> "clusters", clusters |-> AllInOne(vs), rounds |-> 0, centroids |-> 0,
          zeroNorm |-> FALSE]
    ELSE IF numClusters < 0 THEN Threw("RangeError")
    ELSE IF numClusters = 0 /\ vs # <<>> THEN Threw("TypeError")
    ELSE Only({Only({
            [kind |-> "clusters", clusters |-> NonEmpty(run.clusters),
             rounds |-> run.rounds, centroids |-> numClusters, zeroNorm |-> run.zeroNorm] :
         run \in {Refine(vs, centroids, <<>>, 0, numClusters, FALSE)}}) :
         centroids \in {[i \in 1 .. numClusters |-> Arr(vs[randomIndex[i]].vector)]}})

\* Math.floor(Math.random() * this.vectors.length) for each centroid, line 54.
RandomIndexes(vs, numClusters) ==
    IF TooFew(vs, numClusters) \/ numClusters < 1 THEN {<<>>}
    ELSE [1 .. numClusters -> 1 .. Len(vs)]

cluster(numClusters) ==
    /\ pc = "idle"
    /\ \E randomIndex \in RandomIndexes(vectors, numClusters) :
          outcome' = Clustered(vectors, numClusters, randomIndex)
    /\ pc' = "done"
    /\ args' = [op |-> "cluster", numClusters |-> numClusters]
    /\ UNCHANGED <<vectors, requests>>
    /\ UNCHANGED outsideStore

\* getStats(), lines 115-121: the number of records and the length of the first
\* record's vector, 0 for an empty store (`?.` gives undefined, and `|| 0` also turns a
\* length of 0 into 0).  memoryUsage, the length of the JSON text of the records, counts
\* the characters of metadata the model does not keep and is left out of the outcome.
Stats(vs) ==
    [kind |-> "stats",
     totalVectors |-> Len(vs),
     dimensions |-> IF vs = <<>> THEN 0 ELSE Len(vs[1].vector)]

getStats ==
    /\ pc = "idle"
    /\ outcome' = Stats(vectors)
    /\ pc' = "done"
    /\ args' = [op |-> "getStats"]
    /\ UNCHANGED <<vectors, requests>>
    /\ UNCHANGED outsideStore

\* The caller takes what the call returned or threw.
return ==
    /\ pc = "done"
    /\ pc' = "idle"
    /\ args' = NoArgs
    /\ outcome' = NoOutcome
    /\ requests' = <<>>
    /\ UNCHANGED vectors
    /\ UNCHANGED outsideStore

Next ==
    \/ \E id \in Ids : add_call(id)
    \/ \E embedding \in Embeddings : add_embedded(embedding)
    \/ add_failed
    \/ \E topK \in TopKs : search_call(topK)
    \/ \E queryVector \in Embeddings : search_embedded(queryVector)
    \/ search_failed
    \/ \E numClusters \in NumClusters : cluster(numClusters)
    \/ getStats
    \/ return

Spec == Init /\ [][Next]_vars

(***************************************************************************)
(* Searches of a store that MaxRanked calls of add have filled.            *)
(***************************************************************************)
RECURSIVE Filled(_)
Filled(n) ==
    IF n = 0 THEN {<<>>}
    ELSE {Pushed(vs, id, embedding) : vs \in Filled(n - 1), id \in Ids, embedding \in Embeddings}

InitRanked ==
    /\ vectors \in Filled(MaxRanked)
    /\ pc = "idle"
    /\ args = NoArgs
    /\ outcome = NoOutcome
    /\ earlier = NoEarlier
    /\ documents = <<>>
    /\ embeddings = <<>>
    /\ requests = <<>>
    /\ messages = <<>>
    /\ tasks = NoTasks
    /\ steps = <<>>
    /\ pending = {}

NextRanked ==
    \/ \E topK \in TopKs : search_call(topK)
    \/ \E queryVector \in Embeddings : search_embedded(queryVector)
    \/ search_failed
    \/ return

SpecRanked == InitRanked /\ [][NextRanked]_vars

(***************************************************************************)
(* Two cluster calls on one store, with the draws of Math.random written   *)
(* down: the caller keeps the draws and the result of the call before and  *)
(* may replay the draws.                                                   *)
(***************************************************************************)
\* cluster that takes the given draws only on the caller's first call and the first
\* record for every centroid afterwards.
cluster_undrawn(numClusters, randomIndex) ==
    /\ pc = "idle"
    /\ outcome' = Clustered(vectors, numClusters,
                            IF earlier = NoEarlier THEN randomIndex
                            ELSE [i \in DOMAIN randomIndex |-> 1])
    /\ pc' = "done"
    /\ args' = [op |-> "cluster", numClusters |-> numClusters, randomIndex |-> randomIndex]
    /\ UNCHANGED <<vectors, earlier, documents, embeddings, requests, messages, tasks, steps, pending>>

\* cluster(numClusters), lines 45-113, when Math.random yields the indexes randomIndex.
cluster_drawn(numClusters, randomIndex) ==
    /\ pc = "idle"
    /\ outcome' = Clustered(vectors, numClusters, randomIndex)
    /\ pc' = "done"
    /\ args' = [op |-> "cluster", numClusters |-> numClusters, randomIndex |-> randomIndex]
    /\ UNCHANGED <<vectors, earlier, documents, embeddings, requests, messages, tasks, steps, pending>>

\* The caller takes the result and keeps it with the call's inputs.
return_drawn ==
    /\ pc = "done"
    /\ earlier' = [kind |-> "cluster", vectors |-> vectors, numClusters |-> args.numClusters,
                   randomIndex |-> args.randomIndex, outcome |-> outcome]
    /\ pc' = "idle"
    /\ args' = NoArgs
    /\ outcome' = NoOutcome
    /\ UNCHANGED <<vectors, documents, embeddings, requests, messages, tasks, steps, pending>>

InitSeeded ==
    /\ vectors \in Filled(MaxSeeded)
    /\ pc = "idle"
    /\ args = NoArgs
    /\ outcome = NoOutcome
    /\ earlier = NoEarlier
    /\ documents = <<>>
    /\ embeddings = <<>>
    /\ requests = <<>>
    /\ messages = <<>>
    /\ tasks = NoTasks
    /\ steps = <<>>
    /\ pending = {}

NextSeeded ==
    \/ \E numClusters \in NumClusters : \E randomIndex \in RandomIndexes(vectors, numClusters) :
          cluster_drawn(numClusters, randomIndex)
    \/ return_drawn

SpecSeeded == InitSeeded /\ [][NextSeeded]_vars

(***************************************************************************)
(* The rounds of cluster: every store of MaxRefined records clustered with *)
(* every numClusters and every sequence of draws.                          *)
(***************************************************************************)
InitRounds ==
    /\ vectors \in Filled(MaxRefined)
    /\ pc = "idle"
    /\ args = NoArgs
    /\ outcome = NoOutcome
    /\ earlier = NoEarlier
    /\ documents = <<>>
    /\ embeddings = <<>>
    /\ requests = <<>>
    /\ messages = <<>>
    /\ tasks = NoTasks
    /\ steps = <<>>
    /\ pending = {}

NextRounds ==
    \/ \E numClusters \in NumClusters : \E randomIndex \in RandomIndexes(vectors, numClusters) :
          cluster_drawn(numClusters, randomIndex)
    \/ return

SpecRounds == InitRounds /\ [][NextRounds]_vars

(***************************************************************************)
(* SimpleRAG (src/src/05-vector-stores.ts, lines 204-271): addDocument,    *)
(* search and query over the private arrays `documents` and `embeddings`.  *)
(* A string is a sequence of lines and a line a sequence of pieces put     *)
(* side by side, so that a template literal is the sequence of its parts.  *)
(***************************************************************************)
Documents ==
    {[id |-> "doc1", content |-> "JavaScript is a programming language used for web development"],
     [id |-> "doc2", content |-> "Python is great for data science and machine learning"]}
Questions == {"What language is good for web development?"}
Answers == {"JavaScript", "The context does not say."}
RAGTopKs == -1 .. (MaxDocuments + 1)

\* addDocument(id, content, metadata) up to its await, lines 213-217: the document is
\* pushed, then the embedding is requested.
addDocument_call(document) ==
    /\ pc = "idle"
    /\ Len(documents) < MaxDocuments
    /\ documents' = Append(documents, document)
    /\ requests' = <<Request("embeddings", Text(document.content))>>
    /\ earlier' = [kind |-> "rag", documents |-> documents, embeddings |-> embeddings]
    /\ pc' = "addDocument"
    /\ args' = [op |-> "addDocument", id |-> document.id, content |-> document.content]
    /\ UNCHANGED <<embeddings, outcome>>
    /\ UNCHANGED outsideRAG

\* The embedding arrives and is pushed, lines 217-218.
addDocument_embedded(embedding) ==
    /\ pc = "addDocument"
    /\ embeddings' = Append(embeddings, embedding)
    /\ requests' = Replied(requests, "answered")
    /\ outcome' = [kind |-> "added"]
    /\ pc' = "done"
    /\ UNCHANGED <<documents, args, earlier>>
    /\ UNCHANGED outsideRAG

\* The embedding request fails: the rejection leaves addDocument at its await, line 217.
addDocument_failed ==
    /\ pc = "addDocument"
    /\ requests' = Replied(requests, "failed")
    /\ outcome' = Threw("ProviderError")
    /\ pc' = "done"
    /\ UNCHANGED <<documents, embeddings, args, earlier>>
    /\ UNCHANGED outsideRAG

\* The mapped array of search, lines 238-242: one entry per element of `embeddings`,
\* with the document at the same index of `documents`.
SimpleRAG_Similarities(docs, embs, queryEmbedding) ==
    [i \in DOMAIN embs |->
        [index |-> i,
         similarity |-> cosineSimilarity(Arr(queryEmbedding), Arr(embs[i])),
         document |-> docs[i]]]

\* What search may return, lines 238-244.
SimpleRAG_SearchResults(docs, embs, queryEmbedding, topK) ==
    {Slice(sorted, topK) : sorted \in Sort(SimpleRAG_Similarities(docs, embs, queryEmbedding))}

\* search(query, topK) up to its await, lines 235-236.
SimpleRAG_search_call(question, topK) ==
    /\ pc = "idle"
    /\ requests' = <<Request("embeddings", Text(question))>>
    /\ pc' = "SimpleRAG.search"
    /\ args' = [op |-> "SimpleRAG.search", question |-> question, topK |-> topK]
    /\ UNCHANGED <<documents, embeddings, outcome, earlier>>
    /\ UNCHANGED outsideRAG

\* The query's embedding arrives; search ranks the documents, lines 238-244.
SimpleRAG_search_embedded(queryEmbedding) ==
    /\ pc = "SimpleRAG.search"
    /\ \E results \in SimpleRAG_SearchResults(documents, embeddings, queryEmbedding, args.topK) :
          outcome' = [kind |-> "results", queryEmbedding |-> queryEmbedding, results |-> results]
    /\ requests' = Replied(requests, "answered")
    /\ pc' = "done"
    /\ UNCHANGED <<documents, embeddings, args, earlier>>
    /\ UNCHANGED outsideRAG

SimpleRAG_search_failed ==
    /\ pc = "SimpleRAG.search"
    /\ requests' = Replied(requests, "failed")
    /\ outcome' = Threw("ProviderError")
    /\ pc' = "done"
    /\ UNCHANGED <<documents, embeddings, args, earlier>>
    /\ UNCHANGED outsideRAG

\* The contents joined by a single line break.
RECURSIVE JoinLines(_)
JoinLines(contents) ==
    IF contents = <<>> THEN <<<<>>>>
    ELSE IF Len(contents) = 1 THEN Text(contents[1])
    ELSE Text(contents[1]) \o JoinLines(Tail(contents))

\* contents.join("\n\n"), line 250: the empty string for no content at all, and an
\* empty line between two contents.
RECURSIVE Join(_)
Join(contents) ==
    IF contents = <<>> THEN <<<<>>>>
    ELSE IF Len(contents) = 1 THEN Text(contents[1])
    ELSE Text(contents[1]) \o <<<<>>>> \o Join(Tail(contents))

\* The context of line 250.
Context(relevantDocs) == Join([k \in DOMAIN relevantDocs |-> relevantDocs[k].document.content])

\* The template literal of lines 252-259.
Instruction ==
    "Answer the following question based on the provided context. If the answer is not in the context, say so."
Prompt(context, question) ==
    <<<<Instruction>>, <<>>, <<"Context:">>>> \o context
        \o <<<<>>, <<"Question: ", question>>, <<>>, <<"Answer:">>>>

\* The sources of line 268 in reverse.
SourcesReversed(relevantDocs) ==
    [k \in DOMAIN relevantDocs |->
        [id |-> relevantDocs[Len(relevantDocs) + 1 - k].document.id,
         similarity |-> relevantDocs[Len(relevantDocs) + 1 - k].similarity]]

\* The sources of line 268.
Sources(relevantDocs) ==
    [k \in DOMAIN relevantDocs |->
        [id |-> relevantDocs[k].document.id, similarity |-> relevantDocs[k].similarity]]

\* query(question, topK) up to the await inside this.search, lines 247-248 and 235-236.
query_call(question, topK) ==
    /\ pc = "idle"
    /\ requests' = <<Request("embeddings", Text(question))>>
    /\ pc' = "query.search"
    /\ args' = [op |-> "query", question |-> question, topK |-> topK]
    /\ UNCHANGED <<documents, embeddings, outcome, earlier>>
    /\ UNCHANGED outsideRAG

\* The failed embedding request answered by a chat request with no context.
query_embedding_fallback ==
    /\ pc = "query.search"
    /\ requests' = Append(Replied(requests, "failed"),
                          Request("chat", Prompt(Context(<<>>), args.question)))
    /\ pc' = "query.chat"
    /\ args' = [op |-> "query", question |-> args.question, topK |-> args.topK,
                queryEmbedding |-> <<>>, relevantDocs |-> <<>>]
    /\ UNCHANGED <<documents, embeddings, outcome, earlier>>
    /\ UNCHANGED outsideRAG

\* The embedding request of this.search fails: the rejection passes through the awaits
\* of lines 236 and 248.
query_embedding_failed ==
    /\ pc = "query.search"
    /\ requests' = Replied(requests, "failed")
    /\ outcome' = Threw("ProviderError")
    /\ pc' = "done"
    /\ UNCHANGED <<documents, embeddings, args, earlier>>
    /\ UNCHANGED outsideRAG

\* The prompt sent to the chat twice.
query_embedded_resent(queryEmbedding) ==
    /\ pc = "query.search"
    /\ \E relevantDocs \in SimpleRAG_SearchResults(documents, embeddings, queryEmbedding, args.topK) :
          /\ args' = [op |-> "query", question |-> args.question, topK |-> args.topK,
                      queryEmbedding |-> queryEmbedding, relevantDocs |-> relevantDocs]
          /\ requests' = Replied(requests, "answered")
                            \o <<Request("chat", Prompt(Context(relevantDocs), args.question)),
                                 Request("chat", Prompt(Context(relevantDocs), args.question))>>
    /\ pc' = "query.chat"
    /\ UNCHANGED <<documents, embeddings, outcome, earlier>>
    /\ UNCHANGED outsideRAG

\* this.search returns; query builds the prompt and sends it, lines 248-264.
query_embedded(queryEmbedding) ==
    /\ pc = "query.search"
    /\ \E relevantDocs \in SimpleRAG_SearchResults(documents, embeddings, queryEmbedding, args.topK) :
          /\ args' = [op |-> "query", question |-> args.question, topK |-> args.topK,
                      queryEmbedding |-> queryEmbedding, relevantDocs |-> relevantDocs]
          /\ requests' = Append(Replied(requests, "answered"),
                                Request("chat", Prompt(Context(relevantDocs), args.question)))
    /\ pc' = "query.chat"
    /\ UNCHANGED <<documents, embeddings, outcome, earlier>>
    /\ UNCHANGED outsideRAG

\* The chat answers; query returns the answer with its sources, lines 266-269.
query_answered(answer) ==
    /\ pc = "query.chat"
    /\ requests' = Replied(requests, answer)
    /\ outcome' = [kind |-> "answer", answer |-> answer, sources |-> Sources(args.relevantDocs)]
    /\ pc' = "done"
    /\ UNCHANGED <<documents, embeddings, args, earlier>>
    /\ UNCHANGED outsideRAG

\* The chat request fails: the rejection leaves query at its await, line 261.
query_chat_failed ==
    /\ pc = "query.chat"
    /\ requests' = Replied(requests, "failed")
    /\ outcome' = Threw("ProviderError")
    /\ pc' = "done"
    /\ UNCHANGED <<documents, embeddings, args, earlier>>
    /\ UNCHANGED outsideRAG

\* The caller takes what the call of SimpleRAG returned or threw.
SimpleRAG_return ==
    /\ pc = "done"
    /\ pc' = "idle"
    /\ args' = NoArgs
    /\ outcome' = NoOutcome
    /\ requests' = <<>>
    /\ UNCHANGED <<documents, embeddings, earlier>>
    /\ UNCHANGED outsideRAG

NextRAG ==
    \/ \E document \in Documents : addDocument_call(document)
    \/ \E embedding \in Embeddings : addDocument_embedded(embedding)
    \/ addDocument_failed
    \/ \E question \in Questions : \E topK \in RAGTopKs : SimpleRAG_search_call(question, topK)
    \/ \E queryEmbedding \in Embeddings : SimpleRAG_search_embedded(queryEmbedding)
    \/ SimpleRAG_search_failed
    \/ \E question \in Questions : \E topK \in RAGTopKs : query_call(question, topK)
    \/ \E queryEmbedding \in Embeddings : query_embedded(queryEmbedding)
    \/ query_embedding_failed
    \/ \E answer \in Answers : query_answered(answer)
    \/ query_chat_failed
    \/ SimpleRAG_return

SpecRAG == Init /\ [][NextRAG]_vars

(***************************************************************************)
(* A caller of either class: the two objects share no state, and a run     *)
(* works on one of them while the other stays empty.  A call of the vector *)
(* store starts on a store of fewer than MaxCalled records.                *)
(***************************************************************************)
NextCalls ==
    \/ /\ documents = <<>>
       /\ pc = "idle" => Len(vectors) < MaxCalled
       /\ args.op \in {"none", "add", "search", "cluster", "getStats"}
       /\ Next
    \/ /\ vectors = <<>>
       /\ args.op \in {"none", "addDocument", "SimpleRAG.search", "query"}
       /\ NextRAG

SpecCalls == Init /\ [][NextCalls]_vars

(***************************************************************************)
(* Callers of addDocument that do not await one call before the next       *)
(* (lines 213-219).  Each call runs to its await in one step; `pending`    *)
(* holds the calls suspended there, each named by the position of its      *)
(* request in `requests`, and the replies arrive in any order.             *)
(***************************************************************************)
\* The request rs[r] answered with an embedding.
Embedded(rs, r, embedding) ==
    [rs EXCEPT ![r] = [to |-> rs[r].to, input |-> rs[r].input, reply |-> "answered",
                       embedding |-> embedding]]

\* addDocument up to its await, lines 213-217: the document is pushed and its embedding
\* requested.
addDocument_suspended(document) ==
    /\ Len(documents) < MaxDocuments
    /\ documents' = Append(documents, document)
    /\ requests' = Append(requests, Request("embeddings", Text(document.content)))
    /\ pending' = pending \cup {Len(requests) + 1}
    /\ UNCHANGED <<embeddings, pc, args, outcome, earlier>>
    /\ UNCHANGED <<vectors, messages, tasks, steps>>

\* The embedding of call r arrives; the call resumes and pushes it, lines 217-218.
addDocument_resumed(r, embedding) ==
    /\ r \in pending
    /\ embeddings' = Append(embeddings, embedding)
    /\ requests' = Embedded(requests, r, embedding)
    /\ pending' = pending \ {r}
    /\ UNCHANGED <<documents, pc, args, outcome, earlier>>
    /\ UNCHANGED <<vectors, messages, tasks, steps>>

\* The embedding request of call r fails; the call ends at its await, line 217.
addDocument_rejected(r) ==
    /\ r \in pending
    /\ requests' = [requests EXCEPT ![r].reply = "failed"]
    /\ pending' = pending \ {r}
    /\ UNCHANGED <<documents, embeddings, pc, args, outcome, earlier>>
    /\ UNCHANGED <<vectors, messages, tasks, steps>>

NextConcurrent ==
    \/ \E document \in Documents : addDocument_suspended(document)
    \/ \E r \in pending : \E embedding \in Embeddings : addDocument_resumed(r, embedding)
    \/ \E r \in pending : addDocument_rejected(r)

SpecConcurrent == Init /\ [][NextConcurrent]_vars

(***************************************************************************)
(* ConversationManager (src/unnamed/part_004): a list of messages with a   *)
(* role and a content.  A content or a keyword is a sequence of            *)
(* characters, so that toLowerCase and includes do what they do.           *)
(***************************************************************************)
Roles == {"user", "assistant", "system"}
Contents == {<<"A", "I">>, <<"p", "i", "e">>}
Keywords == {<<"a", "i">>, <<"P">>}
KeywordLists == {<<>>} \cup {<<k>> : k \in Keywords} \cup {<<k, l>> : k, l \in Keywords}
Counts == -1 .. MaxCount
Replies == {<<"p", "i">>}

toLowerCase(str) ==
    [i \in DOMAIN str |->
        CASE str[i] = "A" -> "a"
          [] str[i] = "I" -> "i"
          [] str[i] = "P" -> "p"
          [] OTHER -> str[i]]

\* str.includes(part): part is a run of consecutive characters of str.
includes(str, part) ==
    \E from \in 0 .. Len(str) - Len(part) : SubSeq(str, from + 1, from + Len(part)) = part

\* keywords.some((keyword) => msg.content.toLowerCase().includes(keyword.toLowerCase())),
\* lines 35 and 39.
HasKeyword(msg, keywords) ==
    \E k \in DOMAIN keywords : includes(toLowerCase(msg.content), toLowerCase(keywords[k]))

IsSystem(msg) == msg.role = "system"
NotSystem(msg) == msg.role # "system"

\* Array.prototype.slice(start): a negative start counts from the end of the array.
SliceFrom(arr, start) ==
    LET from == IF start < 0 THEN Max(Len(arr) + start, 0) ELSE Min(start, Len(arr))
    IN SubSeq(arr, from + 1, Len(arr))

\* new ConversationManager(model, systemPrompt), lines 16-21.
InitConversation ==
    /\ messages \in {<<>>} \cup {<<[role |-> "system", content |-> c]>> : c \in Contents}
    /\ pc = "idle"
    /\ args = NoArgs
    /\ outcome = NoOutcome
    /\ earlier = NoEarlier
    /\ vectors = <<>>
    /\ documents = <<>>
    /\ embeddings = <<>>
    /\ requests = <<>>
    /\ tasks = NoTasks
    /\ steps = <<>>
    /\ pending = {}

\* addMessage(role, content), lines 23-30.
addMessage(role, content) ==
    /\ pc = "idle"
    /\ Len(messages) < MaxMessages
    /\ messages' = Append(messages, [role |-> role, content |-> content])
    /\ UNCHANGED <<pc, args, outcome, earlier>>
    /\ UNCHANGED outsideConversation

\* sendMessage(userMessage) up to its await, lines 86-89.
sendMessage_call(userMessage) ==
    /\ pc = "idle"
    /\ Len(messages) + 1 < MaxMessages
    /\ messages' = Append(messages, [role |-> "user", content |-> userMessage])
    /\ pc' = "sendMessage"
    /\ args' = [op |-> "sendMessage", userMessage |-> userMessage]
    /\ UNCHANGED <<outcome, earlier>>
    /\ UNCHANGED outsideConversation

\* The chat answers, lines 94-95.
sendMessage_answered(reply) ==
    /\ pc = "sendMessage"
    /\ messages' = Append(messages, [role |-> "assistant", content |-> reply])
    /\ outcome' = [kind |-> "reply", content |-> reply]
    /\ pc' = "done"
    /\ UNCHANGED <<args, earlier>>
    /\ UNCHANGED outsideConversation

\* The chat request fails: the rejection leaves sendMessage at its await, line 89.
sendMessage_failed ==
    /\ pc = "sendMessage"
    /\ outcome' = Threw("ProviderError")
    /\ pc' = "done"
    /\ UNCHANGED <<messages, args, earlier>>
    /\ UNCHANGED outsideConversation

\* The list of line 44: the system messages, then the messages with a keyword, then
\* the messages without one.
Rearranged(msgs, keywords) ==
    SelectSeq(msgs, IsSystem)
        \o SelectSeq(msgs, LAMBDA msg : HasKeyword(msg, keywords))
        \o SelectSeq(msgs, LAMBDA msg : ~HasKeyword(msg, keywords))

\* rearrangeByKeywords(keywords), lines 33-45.
rearrangeByKeywords(keywords) ==
    /\ pc = "idle"
    /\ Len(messages) <= MaxMessages
    /\ messages' = Rearranged(messages, keywords)
    /\ earlier' = [kind |-> "conversation", messages |-> messages]
    /\ pc' = "done"
    /\ args' = [op |-> "rearrangeByKeywords", keywords |-> keywords]
    /\ outcome' = [kind |-> "returned"]
    /\ UNCHANGED outsideConversation

\* The list of line 54: the system messages, then nonSystemMessages.slice(-count * 2).
Trimmed(msgs, count) ==
    SelectSeq(msgs, IsSystem) \o SliceFrom(SelectSeq(msgs, NotSystem), 0 - count * 2)

\* trimToLastExchanges(count), lines 48-55.
trimToLastExchanges(count) ==
    /\ pc = "idle"
    /\ messages' = Trimmed(messages, count)
    /\ earlier' = [kind |-> "conversation", messages |-> messages]
    /\ pc' = "done"
    /\ args' = [op |-> "trimToLastExchanges", count |-> count]
    /\ outcome' = [kind |-> "returned"]
    /\ UNCHANGED outsideConversation

\* The caller goes on after a call of ConversationManager.
ConversationManager_return ==
    /\ pc = "done"
    /\ pc' = "idle"
    /\ args' = NoArgs
    /\ outcome' = NoOutcome
    /\ earlier' = NoEarlier
    /\ UNCHANGED messages
    /\ UNCHANGED outsideConversation

NextConversation ==
    \/ \E role \in Roles : \E content \in Contents : addMessage(role, content)
    \/ \E userMessage \in Contents : sendMessage_call(userMessage)
    \/ \E reply \in Replies : sendMessage_answered(reply)
    \/ sendMessage_failed
    \/ \E keywords \in KeywordLists : rearrangeByKeywords(keywords)
    \/ \E count \in Counts : trimToLastExchanges(count)
    \/ ConversationManager_return

SpecConversation == InitConversation /\ [][NextConversation]_vars

(***************************************************************************)
(* summarizeHistory (lines 58-84) with callers that do not await it before *)
(* they call addMessage or sendMessage.  `pending` holds the calls         *)
(* suspended at their await with the locals they hold there.               *)
(***************************************************************************)
KeepLasts == 0 .. MaxKeep

\* A conversation of n exchanges of sendMessage after msgs.
RECURSIVE Exchanged(_, _)
Exchanged(msgs, n) ==
    IF n = 0 THEN {msgs}
    ELSE {Append(Append(before, [role |-> "user", content |-> userMessage]),
                 [role |-> "assistant", content |-> reply]) :
            before \in Exchanged(msgs, n - 1), userMessage \in Contents, reply \in Replies}

\* Array.prototype.slice(start, end) for start >= 0: a negative end counts from the end
\* of the array, and -0 is 0.
SliceBetween(arr, start, end) ==
    LET to == IF end < 0 THEN Max(Len(arr) + end, 0) ELSE Min(end, Len(arr))
    IN SubSeq(arr, Min(start, Len(arr)) + 1, to)

\* The message of lines 77-81.
SummaryPrefix == <<"Previous conversation summary: ">>
Summary(content) == [role |-> "system", content |-> SummaryPrefix \o content]

Suspended(op) == {call \in pending : call.op = op}

InitSummary ==
    /\ messages \in UNION {Exchanged(first, n) :
                              first \in {<<>>} \cup {<<[role |-> "system", content |-> c]>> : c \in Contents},
                              n \in 0 .. MaxExchanges}
    /\ pc = "idle"
    /\ args = NoArgs
    /\ outcome = NoOutcome
    /\ earlier = NoEarlier
    /\ vectors = <<>>
    /\ documents = <<>>
    /\ embeddings = <<>>
    /\ requests = <<>>
    /\ tasks = NoTasks
    /\ steps = <<>>
    /\ pending = {}

\* summarizeHistory(keepLast) up to its await, lines 58-70: it returns at once for a
\* short conversation (line 59) or when nothing is old (line 65); `found` is the
\* conversation as the call found it.
summarizeHistory_suspended(keepLast) ==
    /\ Suspended("summarizeHistory") = {}
    /\ Len(messages) > keepLast + 2
    /\ SliceBetween(messages, Len(SelectSeq(messages, IsSystem)), 0 - keepLast) # <<>>
    /\ pending' = pending \cup
          {[op |-> "summarizeHistory",
            keepLast |-> keepLast,
            systemMessages |-> SelectSeq(messages, IsSystem),
            recentMessages |-> SliceFrom(messages, 0 - keepLast),
            oldMessages |-> SliceBetween(messages, Len(SelectSeq(messages, IsSystem)), 0 - keepLast),
            found |-> messages]}
    /\ UNCHANGED <<messages, pc, args, outcome, earlier>>
    /\ UNCHANGED outsideSummary

\* The chat answers with the summary; the conversation is replaced, lines 75-83.
summarizeHistory_resumed(call, content) ==
    /\ call \in Suspended("summarizeHistory")
    /\ messages' = call.systemMessages \o <<Summary(content)>> \o call.recentMessages
    /\ pending' = pending \ {call}
    /\ UNCHANGED <<pc, args, outcome, earlier>>
    /\ UNCHANGED outsideSummary

\* The chat request fails; the call ends at its await, line 70.
summarizeHistory_rejected(call) ==
    /\ call \in Suspended("summarizeHistory")
    /\ pending' = pending \ {call}
    /\ UNCHANGED <<messages, pc, args, outcome, earlier>>
    /\ UNCHANGED outsideSummary

\* addMessage(role, content), lines 23-30, whatever is suspended.
addMessage_meanwhile(role, content) ==
    /\ Len(messages) < MaxHistory
    /\ messages' = Append(messages, [role |-> role, content |-> content])
    /\ UNCHANGED <<pending, pc, args, outcome, earlier>>
    /\ UNCHANGED outsideSummary

\* sendMessage(userMessage) up to its await, lines 86-92.
sendMessage_suspended(userMessage) ==
    /\ Suspended("sendMessage") = {}
    /\ Len(messages) + 1 < MaxHistory
    /\ messages' = Append(messages, [role |-> "user", content |-> userMessage])
    /\ pending' = pending \cup {[op |-> "sendMessage", userMessage |-> userMessage]}
    /\ UNCHANGED <<pc, args, outcome, earlier>>
    /\ UNCHANGED outsideSummary

\* The chat answers the message, lines 94-95.
sendMessage_resumed(call, reply) ==
    /\ call \in Suspended("sendMessage")
    /\ messages' = Append(messages, [role |-> "assistant", content |-> reply])
    /\ pending' = pending \ {call}
    /\ UNCHANGED <<pc, args, outcome, earlier>>
    /\ UNCHANGED outsideSummary

\* The chat request of sendMessage fails, line 89.
sendMessage_rejected(call) ==
    /\ call \in Suspended("sendMessage")
    /\ pending' = pending \ {call}
    /\ UNCHANGED <<messages, pc, args, outcome, earlier>>
    /\ UNCHANGED outsideSummary

NextSummary ==
    \/ \E keepLast \in KeepLasts : summarizeHistory_suspended(keepLast)
    \/ \E call \in pending : \E content \in Replies : summarizeHistory_resumed(call, content)
    \/ \E call \in pending : summarizeHistory_rejected(call)
    \/ \E role \in Roles : \E content \in Contents : addMessage_meanwhile(role, content)
    \/ \E userMessage \in Contents : sendMessage_suspended(userMessage)
    \/ \E call \in pending : \E reply \in Replies : sendMessage_resumed(call, reply)
    \/ \E call \in pending : sendMessage_rejected(call)

SpecSummary == InitSummary /\ [][NextSummary]_vars

(***************************************************************************)
(* MCPProgressTracker (src/unnamed/part_002, lines 57-106): a map from     *)
(* task ids to a status, a progress and a result.  A task id is used for   *)
(* one task.                                                               *)
(***************************************************************************)
TestPrompts == <<"Explain variables", "Explain functions", "Explain classes">>
\* The prompts of the test, over and over, up to any length.
PromptLists ==
    {[k \in 1 .. n |-> TestPrompts[((k - 1) % Len(TestPrompts)) + 1]] : n \in 0 .. MaxPrompts}

\* response.message.content for a prompt, lines 95-100.
response(prompt) == <<"response to", prompt>>

\* The pairs <<i, n>>, n up to 402, for which the double (i / n) * 100 falls just below
\* the half that i * 100 / n is, so that Math.round gives one less.
RoundsBelow ==
    {<<23, 40>>, <<46, 80>>, <<69, 120>>, <<92, 160>>, <<29, 200>>, <<57, 200>>,
     <<113, 200>>, <<115, 200>>, <<138, 240>>, <<161, 280>>, <<184, 320>>, <<207, 360>>,
     <<58, 400>>, <<114, 400>>, <<226, 400>>, <<230, 400>>}

\* Math.round((i / n) * 100), line 93: the nearest integer, a half going up.
Percent(i, n) ==
    LET exact == (200 * i + n) \div (2 * n)
    IN IF <<i, n>> \in RoundsBelow THEN exact - 1 ELSE exact

\* startTask, line 61.
startTask(ts, taskId) ==
    [ts EXCEPT ![taskId] = [status |-> "started", progress |-> 0,
                            hasResult |-> FALSE, result |-> <<>>]]

\* updateProgress, lines 65-72: nothing for an unknown task; an empty status is kept out.
updateProgress(ts, taskId, progress, status) ==
    IF ts[taskId].status = "none" THEN ts
    ELSE [ts EXCEPT ![taskId].progress = progress,
                    ![taskId].status = IF status # "" THEN status ELSE @]

\* completeTask, lines 74-82.
completeTask(ts, taskId, result) ==
    IF ts[taskId].status = "none" THEN ts
    ELSE [ts EXCEPT ![taskId].status = "completed",
                    ![taskId].progress = 100,
                    ![taskId].hasResult = TRUE,
                    ![taskId].result = result]

\* longRunningOllamaTask(taskId, prompts) up to the head of its loop, lines 88-92.
longRunningOllamaTask_call(taskId, prompts) ==
    /\ pc = "idle"
    /\ tasks[taskId].status = "none"
    /\ tasks' = startTask(tasks, taskId)
    /\ pc' = "longRunningOllamaTask"
    /\ args' = [op |-> "longRunningOllamaTask", taskId |-> taskId, prompts |-> prompts,
                i |-> 0, results |-> <<>>]
    /\ UNCHANGED outcome
    /\ UNCHANGED outsideTracker

\* One more prompt: the progress is updated and the prompt sent, lines 92-98.
longRunningOllamaTask_request ==
    /\ pc = "longRunningOllamaTask"
    /\ args.i < Len(args.prompts)
    /\ tasks' = updateProgress(tasks, args.taskId, Percent(args.i, Len(args.prompts)), "processing")
    /\ pc' = "chat"
    /\ UNCHANGED <<args, outcome>>
    /\ UNCHANGED outsideTracker

\* The chat answers: the response is pushed and i incremented, lines 100 and 92.
longRunningOllamaTask_answered ==
    /\ pc = "chat"
    /\ args' = [args EXCEPT !.results = Append(@, response(args.prompts[args.i + 1])),
                            !.i = @ + 1]
    /\ pc' = "longRunningOllamaTask"
    /\ UNCHANGED <<tasks, outcome>>
    /\ UNCHANGED outsideTracker

\* The chat request fails: the rejection leaves the loop at its await, line 95.
longRunningOllamaTask_failed ==
    /\ pc = "chat"
    /\ outcome' = Threw("ProviderError")
    /\ pc' = "done"
    /\ UNCHANGED <<tasks, args>>
    /\ UNCHANGED outsideTracker

\* No prompt is left: the task is completed and the results returned, lines 103-104.
longRunningOllamaTask_complete ==
    /\ pc = "longRunningOllamaTask"
    /\ ~(args.i < Len(args.prompts))
    /\ tasks' = completeTask(tasks, args.taskId, args.results)
    /\ outcome' = [kind |-> "results", results |-> args.results]
    /\ pc' = "done"
    /\ UNCHANGED args
    /\ UNCHANGED outsideTracker

\* The caller takes what longRunningOllamaTask returned or threw, and what
\* getTaskStatus shows.
MCPProgressTracker_return ==
    /\ pc = "done"
    /\ pc' = "idle"
    /\ args' = NoArgs
    /\ outcome' = NoOutcome
    /\ UNCHANGED tasks
    /\ UNCHANGED outsideTracker

NextTracker ==
    \/ \E taskId \in TaskIds : \E prompts \in PromptLists :
          longRunningOllamaTask_call(taskId, prompts)
    \/ longRunningOllamaTask_request
    \/ longRunningOllamaTask_answered
    \/ longRunningOllamaTask_failed
    \/ longRunningOllamaTask_complete
    \/ MCPProgressTracker_return

SpecTracker == Init /\ [][NextTracker]_vars

(***************************************************************************)
(* PromptChain (src/src/06-advanced-ai-concepts.ts, lines 165-206): a list *)
(* of steps, executed one after the other.  A string is a sequence of      *)
(* pieces; "{{input}}" and "$&" are pieces of their own.                   *)
(***************************************************************************)
\* The steps of the test, the last one without a placeholder, the second one with a
\* transform.
StepChoices ==
    {[name |-> "Generate", prompt |-> <<"Create 3 ideas for: ", "{{input}}">>, transform |-> "none"],
     [name |-> "Evaluate", prompt |-> <<"Pick the best idea from: ", "{{input}}", " or ", "{{input}}">>,
      transform |-> "head"],
     [name |-> "Detail", prompt |-> <<"Provide a detailed explanation">>, transform |-> "none"]}
InitialInputs == {<<"improving code quality">>, <<"$&">>}
ChainReplies == {<<"idea", " and more">>, <<"$&">>}

\* step.transform(output), lines 190-192: no transform, or one that keeps the head.
Transformed(transform, output) ==
    IF transform = "none" THEN output ELSE SubSeq(output, 1, 1)

\* The replacement string as String.prototype.replace inserts it: "$&" stands for the
\* matched text.
Inserted(replacement, matched) ==
    [k \in DOMAIN replacement |-> IF replacement[k] = "$&" THEN matched ELSE replacement[k]]

\* step.prompt.replace("{{input}}", currentInput), line 182: the first occurrence only.
Replace(prompt, currentInput) ==
    LET found == {k \in DOMAIN prompt : prompt[k] = "{{input}}"}
    IN IF found = {} THEN prompt
       ELSE LET first == CHOOSE k \in found : \A l \in found : k <= l
            IN SubSeq(prompt, 1, first - 1) \o Inserted(currentInput, "{{input}}")
                   \o SubSeq(prompt, first + 1, Len(prompt))

\* addStep(name, prompt, transform), lines 168-171.
addStep(step) ==
    /\ pc = "idle"
    /\ Len(steps) < MaxSteps
    /\ steps' = Append(steps, step)
    /\ UNCHANGED <<pc, args, outcome, requests>>
    /\ UNCHANGED outsideChain

\* execute(initialInput) up to the head of its loop, lines 173-178.
execute_call(initialInput) ==
    /\ pc = "idle"
    /\ pc' = "execute"
    /\ args' = [op |-> "execute", initialInput |-> initialInput, currentInput |-> initialInput,
                i |-> 0, results |-> <<>>]
    /\ requests' = <<>>
    /\ UNCHANGED <<steps, outcome>>
    /\ UNCHANGED outsideChain

\* One more step: its prompt is filled in and sent, lines 178-187.
execute_request ==
    /\ pc = "execute"
    /\ args.i < Len(steps)
    /\ requests' = Append(requests,
                          Request("chat", <<Replace(steps[args.i + 1].prompt, args.currentInput)>>))
    /\ pc' = "execute.chat"
    /\ UNCHANGED <<steps, args, outcome>>
    /\ UNCHANGED outsideChain

\* A failed step left behind: the chain goes on with the next step.
execute_skipped ==
    /\ pc = "execute.chat"
    /\ requests' = Replied(requests, "failed")
    /\ args' = [args EXCEPT !.i = @ + 1]
    /\ pc' = "execute"
    /\ UNCHANGED <<steps, outcome>>
    /\ UNCHANGED outsideChain

\* The chat request fails: the rejection leaves execute at its await, line 184.
execute_failed ==
    /\ pc = "execute.chat"
    /\ requests' = Replied(requests, "failed")
    /\ outcome' = Threw("ProviderError")
    /\ pc' = "done"
    /\ UNCHANGED <<steps, args>>
    /\ UNCHANGED outsideChain

\* The chat answers: the output is transformed, recorded and made the next input,
\* lines 189-200 and 178.
execute_answered(content) ==
    /\ pc = "execute.chat"
    /\ requests' = Replied(requests, content)
    /\ LET step == steps[args.i + 1]
           output == Transformed(step.transform, content)
       IN args' = [args EXCEPT
                      !.results = Append(@, [step |-> step.name, input |-> args.currentInput,
                                             output |-> output]),
                      !.currentInput = output,
                      !.i = @ + 1]
    /\ pc' = "execute"
    /\ UNCHANGED <<steps, outcome>>
    /\ UNCHANGED outsideChain

\* No step is left: execute returns the results, line 204.
execute_complete ==
    /\ pc = "execute"
    /\ ~(args.i < Len(steps))
    /\ outcome' = [kind |-> "results", results |-> args.results]
    /\ pc' = "done"
    /\ UNCHANGED <<steps, args, requests>>
    /\ UNCHANGED outsideChain

\* The caller takes what execute returned or threw.
PromptChain_return ==
    /\ pc = "done"
    /\ pc' = "idle"
    /\ args' = NoArgs
    /\ outcome' = NoOutcome
    /\ requests' = <<>>
    /\ UNCHANGED steps
    /\ UNCHANGED outsideChain

NextChain ==
    \/ \E step \in StepChoices : addStep(step)
    \/ \E initialInput \in InitialInputs : execute_call(initialInput)
    \/ execute_request
    \/ \E content \in ChainReplies : execute_answered(content)
    \/ execute_failed
    \/ execute_complete
    \/ PromptChain_return

SpecChain == Init /\ [][NextChain]_vars

(***************************************************************************)
(* Properties                                                              *)
(***************************************************************************)
Searched == pc = "done" /\ args.op = "search" /\ outcome.kind = "results"
Clusters == pc = "done" /\ args.op = "cluster" /\ outcome.kind = "clusters"
ClusterDone == pc = "done" /\ args.op = "cluster"

\* The similarity of stored record i to the query of the finished search.
SimilarityOf(i) == cosineSimilarity(Arr(outcome.queryVector), Arr(vectors[i].vector))
Returned == {outcome.results[k].index : k \in DOMAIN outcome.results}

\* C1: search returns the highest-similarity records in non-increasing order of
\* similarity: every result has similarity >= the next one, and no record left out
\* has a similarity strictly greater than a returned one.
C1_TopKOrdered ==
    Searched =>
        /\ \A k \in 1 .. Len(outcome.results) - 1 :
              GreaterEq(outcome.results[k].similarity, outcome.results[k + 1].similarity)
        /\ \A i \in DOMAIN vectors \ Returned : \A k \in DOMAIN outcome.results :
              ~Greater(SimilarityOf(i), outcome.results[k].similarity)

\* C2, as claimed: search returns exactly min(topK, storeSize) results for every
\* integer topK, and an empty sequence on an empty store.
C2_TopKClamped ==
    Searched =>
        /\ Len(outcome.results) = Min(args.topK, Len(vectors))
        /\ vectors = <<>> => outcome.results = <<>>

\* C2, amended: search returns exactly min(topK, storeSize) results for every
\* topK >= 0 and max(storeSize + topK, 0) results for a negative topK; on an empty
\* store it returns an empty sequence, and search raises nothing but the failure of
\* the embedding request.
C2_TopKClampedFromZero ==
    /\ Searched =>
          /\ Len(outcome.results) =
                IF args.topK >= 0 THEN Min(args.topK, Len(vectors))
                ELSE Max(Len(vectors) + args.topK, 0)
          /\ vectors = <<>> => outcome.results = <<>>
    /\ (pc = "done" /\ args.op = "search" /\ outcome.kind = "error")
          => outcome.error = "ProviderError"

\* A search that topK cuts short of the store's size.
C2_Witness ==
    /\ Searched
    /\ args.topK > 0
    /\ args.topK < Len(vectors)
    /\ Len(outcome.results) = args.topK

\* C3: two stored records with equal similarity to the query are returned in
\* insertion order.
C3_TiesInInsertionOrder ==
    Searched =>
        \A k, l \in DOMAIN outcome.results :
            (/\ k < l
             /\ ~outcome.results[k].similarity.nan
             /\ outcome.results[k].similarity = outcome.results[l].similarity)
                => outcome.results[k].index < outcome.results[l].index

\* C4: an add whose vector differs in length from the stored ones fails with
\* DimensionMismatch and leaves the store unchanged, so all stored vectors have the
\* same length.
C4_DimensionInvariant ==
    /\ \A i, j \in DOMAIN vectors : Len(vectors[i].vector) = Len(vectors[j].vector)
    /\ (pc = "done" /\ args.op = "add" /\ outcome.kind = "error")
          => outcome.error \in {"DimensionMismatch", "ProviderError"}

\* C5: a search or cluster call whose similarity computation meets a zero-norm
\* vector fails with DegenerateVector instead of returning.
C5_DegenerateVectorRaised ==
    /\ Searched =>
          ~ \/ vectors # <<>> /\ ZeroNorm(Arr(outcome.queryVector))
            \/ \E i \in DOMAIN vectors : ZeroNorm(Arr(vectors[i].vector))
    /\ Clusters => ~outcome.zeroNorm

\* C6: on a non-empty store the returned clusters partition the stored records: every
\* stored record is in exactly one cluster, once, and every member is a stored record.
C6_ClusteringCoverage ==
    (Clusters /\ vectors # <<>>) =>
        /\ \A i \in DOMAIN vectors :
              Cardinality({m \in {<<c, k>> : c \in DOMAIN outcome.clusters, k \in 1 .. Len(vectors)} :
                              /\ m[2] \in DOMAIN outcome.clusters[m[1]]
                              /\ outcome.clusters[m[1]][m[2]] = i}) = 1
        /\ \A c \in DOMAIN outcome.clusters : \A k \in DOMAIN outcome.clusters[c] :
              outcome.clusters[c][k] \in DOMAIN vectors

\* Two refinement rounds that end in more than one cluster, one of them with two members.
C6_Witness ==
    /\ Clusters
    /\ outcome.rounds >= 2
    /\ Len(outcome.clusters) >= 2
    /\ \E c \in DOMAIN outcome.clusters : Len(outcome.clusters[c]) >= 2

\* C7: cluster returns at most numClusters clusters, each with at least one member.
C7_ClustersNonEmpty ==
    Clusters =>
        /\ Len(outcome.clusters) <= args.numClusters
        /\ \A c \in DOMAIN outcome.clusters : outcome.clusters[c] # <<>>

\* C8: cluster on an empty store with numClusters > 0 returns no cluster at all or
\* fails with InsufficientData.
C8_EmptyStoreClusters ==
    (ClusterDone /\ vectors = <<>> /\ args.numClusters > 0) =>
        \/ outcome.kind = "clusters" /\ outcome.clusters = <<>>
        \/ outcome = Threw("InsufficientData")

\* C9: cluster fails only on an empty store with numClusters > 0: on a non-empty
\* store of equal-length nonzero vectors it returns clusters for every
\* numClusters >= 0.
C9_ClusterFailsOnlyWhenEmpty ==
    (/\ ClusterDone
     /\ vectors # <<>>
     /\ \A i, j \in DOMAIN vectors : Len(vectors[i].vector) = Len(vectors[j].vector)
     /\ \A i \in DOMAIN vectors : ~ZeroNorm(Arr(vectors[i].vector))
     /\ args.numClusters >= 0)
        => outcome.kind = "clusters"

\* C10: with fewer records than numClusters, cluster returns exactly one cluster that
\* holds all stored records, initialises no centroid and runs no refinement round.
C10_DegenerateClustering ==
    (ClusterDone /\ Len(vectors) < args.numClusters) =>
        /\ outcome.kind = "clusters"
        /\ outcome.clusters = <<[i \in 1 .. Len(vectors) |-> i]>>
        /\ outcome.centroids = 0
        /\ outcome.rounds = 0

\* A store of two records clustered into three.
C10_Witness ==
    /\ ClusterDone
    /\ Len(vectors) = 2
    /\ args.numClusters = 3
    /\ outcome.kind = "clusters"
    /\ outcome.clusters = <<<<1, 2>>>>

\* The finished cluster call got the store, the numClusters and the draws of the
\* caller's call before.
Replayed ==
    /\ ClusterDone
    /\ earlier # NoEarlier
    /\ earlier.vectors = vectors
    /\ earlier.numClusters = args.numClusters
    /\ earlier.randomIndex = args.randomIndex

Retrieved == {outcome.results[k].index : k \in DOMAIN outcome.results}

\* C12: an add with the id of an entry already stored appends a distinct record (the
\* size grows by one and the earlier entries are kept unchanged), and both records
\* take part in later searches: a search that topK does not cut returns both.
C12_DuplicateAppended ==
    /\ (/\ pc = "done"
        /\ args.op = "addDocument"
        /\ outcome.kind = "added"
        /\ \E i \in DOMAIN earlier.documents : earlier.documents[i].id = args.id)
          => documents = Append(earlier.documents, [id |-> args.id, content |-> args.content])
    /\ (/\ pc = "done"
        /\ args.op = "SimpleRAG.search"
        /\ outcome.kind = "results"
        /\ args.topK >= Len(documents))
          => \A i, j \in DOMAIN documents :
                (i < j /\ documents[i].id = documents[j].id) => {i, j} \subseteq Retrieved

Answered == pc = "done" /\ args.op = "query" /\ outcome.kind = "answer"

\* C13: query returns as sources exactly the {id, similarity} pairs of the results of
\* search(question, topK) over the same documents, in the same order and with the same
\* length, and as answer the text the chat replied.
C13_QuerySources ==
    Answered =>
        /\ args.relevantDocs \in
              SimpleRAG_SearchResults(documents, embeddings, args.queryEmbedding, args.topK)
        /\ Len(outcome.sources) = Len(args.relevantDocs)
        /\ \A k \in DOMAIN outcome.sources :
              /\ outcome.sources[k].id = args.relevantDocs[k].document.id
              /\ outcome.sources[k].similarity = args.relevantDocs[k].similarity
        /\ outcome.answer = requests[Len(requests)].reply
        /\ outcome.answer \in Answers

\* A query answered from two ranked documents of different similarity.
C13_Witness ==
    /\ Answered
    /\ Len(outcome.sources) = 2
    /\ outcome.sources[1].id # outcome.sources[2].id
    /\ Greater(outcome.sources[1].similarity, outcome.sources[2].similarity)

\* The prompt query has sent to the chat.
Prompted == args.op = "query" /\ Len(requests) = 2 /\ requests[2].to = "chat"

\* C14: on an empty store the context block of query's prompt is empty and the prompt
\* tells the model that no context was found: it has a line that is neither the empty
\* context nor a line of the prompt of a non-empty retrieval.
C14_EmptyStorePrompt ==
    (Prompted /\ documents = <<>>) =>
        /\ Context(args.relevantDocs) = <<<<>>>>
        /\ \E l \in DOMAIN requests[2].input :
              requests[2].input[l] \notin
                  {<<Instruction>>, <<>>, <<"Context:">>, <<"Answer:">>,
                   <<"Question: ", args.question>>}

\* C15: an addDocument whose embedding request failed leaves documents and embeddings
\* as the call found them.
C15_AddAllOrNothing ==
    (pc = "done" /\ args.op = "addDocument" /\ outcome.kind = "error") =>
        /\ documents = earlier.documents
        /\ embeddings = earlier.embeddings

Failed(rs) == {i \in DOMAIN rs : rs[i].reply = "failed"}
SentTo(rs, to) == {i \in DOMAIN rs : rs[i].to = to}

\* C16: a failed embedding or chat request ends the call with that failure: the failed
\* request is the last one sent (no retry, no chat after a failed embedding), each
\* service is asked at most once, the call returns the failure and nothing else, and
\* no vector is stored in place of the missing embedding.
C16_FailurePropagated ==
    /\ \A i \in Failed(requests) : i = Len(requests)
    /\ Cardinality(SentTo(requests, "embeddings")) <= 1
    /\ Cardinality(SentTo(requests, "chat")) <= 1
    /\ pc = "done" => (Failed(requests) # {} <=> outcome = Threw("ProviderError"))
    /\ (pc = "done" /\ args.op = "addDocument" /\ Failed(requests) # {})
          => embeddings = earlier.embeddings

\* A query whose embedding request failed.
C16_Witness ==
    /\ pc = "done"
    /\ args.op = "query"
    /\ requests = <<[to |-> "embeddings", input |-> Text(args.question), reply |-> "failed"]>>
    /\ outcome = Threw("ProviderError")

\* C17: for all vectors a and b with nonzero norm, cosineSimilarity(a, b) equals
\* cosineSimilarity(b, a); a and b are the query of a finished search and a stored
\* vector.
C17_CosineSymmetric ==
    Searched =>
        \A i \in DOMAIN vectors :
            (~ZeroNorm(Arr(outcome.queryVector)) /\ ~ZeroNorm(Arr(vectors[i].vector)))
                => /\ ~SimilarityOf(i).nan
                   /\ SimilarityOf(i) =
                         cosineSimilarity(Arr(vectors[i].vector), Arr(outcome.queryVector))

Rearrangement == pc = "done" /\ args.op = "rearrangeByKeywords"
Trim == pc = "done" /\ args.op = "trimToLastExchanges"

\* How many times msg occurs in msgs.
Occurrences(msgs, msg) == Cardinality({i \in DOMAIN msgs : msgs[i] = msg})

\* C18: rearrangeByKeywords only reorders the conversation: the number of messages
\* after the call equals the number before, and each message occurs as many times
\* after as before.
C18_RearrangeOnlyReorders ==
    Rearrangement =>
        /\ Len(messages) = Len(earlier.messages)
        /\ \A role \in Roles : \A content \in Contents \cup Replies :
              Occurrences(messages, [role |-> role, content |-> content])
                  = Occurrences(earlier.messages, [role |-> role, content |-> content])

\* C19: for every count >= 0, trimToLastExchanges(count) leaves every system message
\* followed by the last min(2 * count, n) of the n non-system messages in their
\* original order, so at most 2 * count non-system messages.
C19_TrimKeepsLastExchanges ==
    (Trim /\ args.count >= 0) =>
        LET system == SelectSeq(earlier.messages, IsSystem)
            nonSystem == SelectSeq(earlier.messages, NotSystem)
            n == Len(nonSystem)
            kept == Min(2 * args.count, n)
        IN /\ messages = system \o SubSeq(nonSystem, n - kept + 1, n)
           /\ Len(SelectSeq(messages, NotSystem)) <= 2 * args.count

Rank(status) ==
    CASE status = "none" -> 0
      [] status = "started" -> 1
      [] status = "processing" -> 2
      [] status = "completed" -> 3

\* C20: when longRunningOllamaTask returns, the task is "completed" with progress 100
\* and the stored and returned result holds one response per prompt in prompt order;
\* until then the progress never decreases and stays below 100, and the status only
\* moves from started to processing to completed.
C20_TaskProgress ==
    [][\A taskId \in TaskIds :
          /\ Rank(tasks'[taskId].status) >= Rank(tasks[taskId].status)
          /\ tasks[taskId].status # "none" => tasks'[taskId].progress >= tasks[taskId].progress
          /\ (pc' \in {"longRunningOllamaTask", "chat"} /\ args'.taskId = taskId)
                => /\ tasks'[taskId].status \in {"started", "processing"}
                   /\ tasks'[taskId].progress < 100
          /\ (pc' = "done" /\ outcome'.kind = "results" /\ args'.taskId = taskId)
                => /\ tasks'[taskId].status = "completed"
                   /\ tasks'[taskId].progress = 100
                   /\ tasks'[taskId].hasResult
                   /\ tasks'[taskId].result = outcome'.results
                   /\ Len(outcome'.results) = Len(args'.prompts)
                   /\ \A k \in DOMAIN outcome'.results :
                         outcome'.results[k] = response(args'.prompts[k])]_vars

\* C21: execute runs the steps in the order they were added and returns one result
\* per step; the first input is initialInput, every later input is the transformed
\* output of the step before, and a failed chat request at a step ends the call with
\* no later step run.
C21_ChainInOrder ==
    /\ args.op = "execute" =>
          /\ Len(requests) <= Len(steps)
          /\ \A k \in DOMAIN requests : requests[k].reply = "failed" => k = Len(requests)
          /\ \A k \in DOMAIN args.results :
                /\ args.results[k].step = steps[k].name
                /\ args.results[k].input =
                      IF k = 1 THEN args.initialInput ELSE args.results[k - 1].output
                /\ args.results[k].output \in
                      {requests[k].reply, SubSeq(requests[k].reply, 1, 1)}
                /\ steps[k].transform = "none" => args.results[k].output = requests[k].reply
    /\ (pc = "done" /\ args.op = "execute") =>
          \/ /\ outcome = Threw("ProviderError")
             /\ requests[Len(requests)].reply = "failed"
             /\ Len(args.results) = Len(requests) - 1
          \/ /\ outcome.kind = "results"
             /\ outcome.results = args.results
             /\ Len(outcome.results) = Len(steps)
             /\ Len(requests) = Len(steps)

\* A chain of three steps executed to its end, the second step with a transform that
\* changed its output.
C21_Witness ==
    /\ pc = "done"
    /\ args.op = "execute"
    /\ outcome.kind = "results"
    /\ Len(outcome.results) = 3
    /\ outcome.results[2].output # requests[2].reply
    /\ outcome.results[3].input = outcome.results[2].output

\* The finished cluster call drew its centroids.
Initialised == ClusterDone /\ args.randomIndex # <<>>

\* C22: the initial centroids of cluster are copies of pairwise distinct entries with
\* pairwise distinct vectors, whatever the draws.
C22_DistinctInitialCentroids ==
    Initialised =>
        \A i, j \in DOMAIN args.randomIndex :
            i # j => /\ args.randomIndex[i] # args.randomIndex[j]
                     /\ vectors[args.randomIndex[i]].vector # vectors[args.randomIndex[j]].vector

\* The centroids at the start of round r of the finished cluster call: the copies of
\* the drawn entries, updated after each round before r.
RECURSIVE CentroidsAt(_)
CentroidsAt(r) ==
    IF r = 1 THEN [i \in 1 .. args.numClusters |-> Arr(vectors[args.randomIndex[i]].vector)]
    ELSE Only({updated(vectors, before, Assign(vectors, before, args.numClusters)) :
               before \in {CentroidsAt(r - 1)}})

\* The clusters of round r, and the centroid that entry e is assigned to in them.
AssignedAt(r) == Assign(vectors, CentroidsAt(r), args.numClusters)
CentroidOf(clusters, e) ==
    CHOOSE c \in DOMAIN clusters : \E k \in DOMAIN clusters[c] : clusters[c][k] = e

\* The rounds the finished cluster call ran.
Refined == Initialised /\ outcome.kind = "clusters"

\* C23: in every round each entry is assigned to the centroid of highest similarity,
\* and among centroids that tie for the highest to the one of lowest index.  A NaN is
\* no similarity: a centroid with a similarity that is a number goes before it.
C23_AssignedToBestCentroid ==
    Refined =>
        \A r \in 1 .. outcome.rounds :
            LET centroids == CentroidsAt(r)
                clusters == AssignedAt(r)
            IN \A e \in DOMAIN vectors :
                  LET c == CentroidOf(clusters, e)
                      Similarity(i) == cosineSimilarity(Arr(vectors[e].vector), centroids[i])
                  IN \A i \in DOMAIN centroids :
                        ~Similarity(i).nan =>
                            /\ GreaterEq(Similarity(c), Similarity(i))
                            /\ i < c => Greater(Similarity(c), Similarity(i))

\* The similarity of centroid i before round r's update with its value after it.
ChangeAt(r, i) == cosineSimilarity(CentroidsAt(r)[i], CentroidsAt(r + 1)[i])

\* The centroids round r recomputes: those with entries assigned.
RecomputedAt(r) == {i \in 1 .. args.numClusters : AssignedAt(r)[i] # <<>>}

Above099(x) == ~x.nan /\ x.s > 0 /\ x.n * 10000 > 9801 * x.d
Below099(x) == ~x.nan /\ (x.s <= 0 \/ x.n * 10000 < 9801 * x.d)

\* Every centroid round r recomputes has similarity above 0.99 to its previous value.
SettledAt(r) == \A i \in RecomputedAt(r) : Above099(ChangeAt(r, i))

\* C25: the round cluster stops in, when it is before the bound, is the first round in
\* which every recomputed centroid has similarity above 0.99 to its previous value; no
\* round with a recomputed centroid below 0.99 is the last one before the bound; and a
\* centroid with no entry assigned keeps its value.
C25_StopsWhenSettled ==
    Refined =>
        /\ outcome.rounds < maxIterations => SettledAt(outcome.rounds)
        /\ \A r \in 1 .. (outcome.rounds - 1) : ~SettledAt(r)
        /\ \A r \in 1 .. outcome.rounds :
              (\E i \in RecomputedAt(r) : Below099(ChangeAt(r, i)))
                  => r < outcome.rounds \/ r = maxIterations
        /\ \A r \in 1 .. outcome.rounds :
              \A i \in (1 .. args.numClusters) \ RecomputedAt(r) :
                  CentroidsAt(r + 1)[i] = CentroidsAt(r)[i]

\* The entries of SimpleRAG as search pairs them (lines 238-242): each embedding with
\* the document at its index.
Entries(docs, embs) == [i \in DOMAIN embs |-> [document |-> docs[i], embedding |-> embs[i]]]

\* vs with one record appended and nothing else changed.
Appended(vs, after) == Len(after) = Len(vs) + 1 /\ SubSeq(after, 1, Len(vs)) = vs

\* C26: a step that changes the stored entries is a step of add or addDocument, never
\* of search, cluster, query or getStats; add's step appends one record to `vectors` and
\* keeps the earlier ones in place; addDocument appends the document it was given to
\* `documents`, and the entry it appends is that document with its embedding, after the
\* earlier entries unchanged.
C26_OnlyAddChangesEntries ==
    [][/\ vectors' # vectors =>
            args'.op = "add" /\ Appended(vectors, vectors')
       /\ documents' # documents =>
            /\ args'.op = "addDocument"
            /\ documents' = Append(documents, [id |-> args'.id, content |-> args'.content])
       /\ embeddings' # embeddings =>
            /\ args'.op = "addDocument"
            /\ Appended(embeddings, embeddings')
            /\ Entries(documents', embeddings') =
                  Append(Entries(documents, embeddings),
                         [document |-> [id |-> args.id, content |-> args.content],
                          embedding |-> embeddings'[Len(embeddings')]])]_vars

\* The lines of the prompt between the line "Context:" and the empty line that
\* precedes the question.
ContextBlock == SubSeq(requests[2].input, 4, Len(requests[2].input) - 4)

\* C27: the context block of query's prompt is the raw content of the documents search
\* returned, one per result and in the order of the results, with one empty line between
\* two of them (for no result, the empty string); no line of it is the content of a
\* stored document that is not among the results.
C27_ContextIsRetrievedContent ==
    Prompted =>
        /\ args.relevantDocs \in
              SimpleRAG_SearchResults(documents, embeddings, args.queryEmbedding, args.topK)
        /\ IF args.relevantDocs = <<>>
           THEN ContextBlock = <<<<>>>>
           ELSE /\ Len(ContextBlock) = 2 * Len(args.relevantDocs) - 1
                /\ \A k \in DOMAIN args.relevantDocs :
                      ContextBlock[2 * k - 1] = <<args.relevantDocs[k].document.content>>
                /\ \A k \in 1 .. (Len(args.relevantDocs) - 1) : ContextBlock[2 * k] = <<>>
        /\ \A l \in DOMAIN ContextBlock : \A d \in DOMAIN documents :
              ContextBlock[l] = <<documents[d].content>> =>
                  \E k \in DOMAIN args.relevantDocs :
                      args.relevantDocs[k].document.content = documents[d].content

\* A prompt sent for two results of different content and similarity.
C27_Witness ==
    /\ Prompted
    /\ Len(args.relevantDocs) = 2
    /\ args.relevantDocs[1].document.content # args.relevantDocs[2].document.content
    /\ Greater(args.relevantDocs[1].similarity, args.relevantDocs[2].similarity)

\* The requests of the call that has just finished, by the service they went to.
Finished(ops) == pc = "done" /\ args.op \in ops
Calls(to) == Cardinality(SentTo(requests, to))

\* C28: a successful add or addDocument has made one embedding request and no chat
\* request, a search one embedding request and no chat request, a query one embedding
\* request followed by one chat request, and cluster no request at all.
C28_ProviderCalls ==
    /\ (Finished({"add", "addDocument"}) /\ outcome.kind = "added") =>
            Calls("embeddings") = 1 /\ Calls("chat") = 0
    /\ Finished({"search", "SimpleRAG.search"}) =>
            Calls("embeddings") = 1 /\ Calls("chat") = 0
    /\ Finished({"query"}) =>
            /\ Len(requests) = 2
            /\ requests[1].to = "embeddings"
            /\ requests[2].to = "chat"
    /\ Finished({"cluster"}) => requests = <<>>

\* C28 amended: as C28, for a query whose embedding request was answered; a query whose
\* embedding request failed has made that one request and no chat request.
C28_ProviderCallsOfAnsweredEmbedding ==
    /\ (Finished({"add", "addDocument"}) /\ outcome.kind = "added") =>
            Calls("embeddings") = 1 /\ Calls("chat") = 0
    /\ Finished({"search", "SimpleRAG.search"}) =>
            Calls("embeddings") = 1 /\ Calls("chat") = 0
    /\ Finished({"query"}) =>
            /\ requests # <<>>
            /\ requests[1].to = "embeddings"
            /\ IF requests[1].reply = "failed"
               THEN Len(requests) = 1
               ELSE Len(requests) = 2 /\ requests[2].to = "chat"
    /\ Finished({"cluster"}) => requests = <<>>

\* A query that finished after its embedding request and its chat request.
C28_Witness == Finished({"query"}) /\ Len(requests) = 2 /\ outcome.kind = "answer"

\* Every call of addDocument has got its embedding.
AllEmbedded == pending = {} /\ \A r \in DOMAIN requests : requests[r].reply = "answered"

\* C29: once every call of addDocument has completed with its embedding, in whatever
\* order the embeddings arrived, `embeddings` is as long as `documents` and its i-th
\* element is the embedding that the request for the i-th document's content got.
C29_EmbeddingsAligned ==
    AllEmbedded =>
        /\ Len(embeddings) = Len(documents)
        /\ \A i \in DOMAIN documents :
              /\ requests[i].input = Text(documents[i].content)
              /\ embeddings[i] = requests[i].embedding

\* C30: when summarizeHistory(keepLast) completes with its summary, every message
\* appended since the call found the conversation is still in the conversation, and
\* the last keepLast messages of the conversation are the last keepLast messages it had
\* just before.
C30_SummaryKeepsConcurrentMessages ==
    [][\A call \in Suspended("summarizeHistory") :
          (call \notin pending' /\ messages' # messages) =>
              /\ \A k \in (Len(call.found) + 1) .. Len(messages) :
                    \E j \in DOMAIN messages' : messages'[j] = messages[k]
              /\ SliceFrom(messages', 0 - call.keepLast) = SliceFrom(messages, 0 - call.keepLast)]_vars

====
